---------------------------- MODULE Spec2Model ----------------------------
(***************************************************************************)
(* Model of users::mock (src/src/mock.rs): MockUsers, an in-memory table   *)
(* of users and groups behind the Users trait.                             *)
(*                                                                         *)
(* Every method of MockUsers takes `&mut self`; each is modelled as an     *)
(* operator from the struct before the call to a record                    *)
(*     [self |-> the struct after the call, ret |-> the value returned]    *)
(* and one action per method applies it to the state.                      *)
(***************************************************************************)
EXTENDS Integers, Sequences, FiniteSets

\* Fields of MockUsers, the constructor's argument, the arguments of all
\* add_user / add_group calls so far (oldest first), and the last call made
\* with the value it returned.
VARIABLES users, groups, uid, current_uid, added_users, added_groups, call, ret

vars == <<users, groups, uid, current_uid, added_users, added_groups, call, ret>>

-----------------------------------------------------------------------------
(* Bounds and input domains *)

\* Total number of add_user / add_group calls explored.
MaxAdds == 2

\* uid_t / gid_t values used as keys and as the current uid.
Ids == {0, 1337, 1440}
Names == {"fred", "bob"}
PrimaryGroups == {101, 1440}
HomeDirs == {"/home/fred"}
Shells == {"/bin/bash"}
MemberLists == {<< >>, <<"other_person">>}

\* struct User and struct Group (re-exported from the parent module).
User == [uid : Ids, name : Names, primary_group : PrimaryGroups,
         home_dir : HomeDirs, shell : Shells]
Group == [gid : Ids, name : Names, members : MemberLists]

-----------------------------------------------------------------------------
(* Option<T> *)

None == << >>
Some(x) == <<x>>

-----------------------------------------------------------------------------
(* std::collections::HashMap, as a function on its set of keys *)

HashMapNew == << >>

\* HashMap::get(&k).cloned()
HashMapGet(m, k) == IF k \in DOMAIN m THEN Some(m[k]) ELSE None

\* HashMap::insert(k, v): the map after the call and the value replaced.
HashMapInsert(m, k, v) ==
    [map |-> [x \in (DOMAIN m) \cup {k} |-> IF x = k THEN v ELSE m[x]],
     old |-> HashMapGet(m, k)]

\* The orders in which HashMap::values() may visit a map with key set S
\* (the iteration order of a HashMap is unspecified).
IterOrders(S) ==
    {o \in [1..Cardinality(S) -> S] : \A i, j \in DOMAIN o : o[i] = o[j] => i = j}

\* Iterator::find over m.values() visited in `order`, then .cloned():
\* the first value whose name is `name`.
FindByName(m, order, name) ==
    LET hits == {i \in DOMAIN order : m[order[i]].name = name}
    IN  IF hits = {} THEN None
        ELSE Some(m[order[CHOOSE i \in hits : \A j \in hits : i <= j]])

\* Option<&T>::map(|u| u.name.clone())
MapName(o) == IF o = None THEN None ELSE Some(o[1].name)

-----------------------------------------------------------------------------
(* impl MockUsers *)

self == [users |-> users, groups |-> groups, uid |-> uid]

\* with_current_uid ignoring its argument.
with_current_uid_zero(c) == [users |-> HashMapNew, groups |-> HashMapNew, uid |-> 0]

with_current_uid(c) == [users |-> HashMapNew, groups |-> HashMapNew, uid |-> c]

\* add_user keeping an entry already stored under the key.
add_user_keep_first(s, user) ==
    IF user.uid \in DOMAIN s.users
    THEN [self |-> s, ret |-> Some(s.users[user.uid])]
    ELSE [self |-> [s EXCEPT !.users = HashMapInsert(s.users, user.uid, user).map],
          ret |-> None]

\* add_user keyed by the user's primary group.
add_user_by_primary_group(s, user) ==
    LET r == HashMapInsert(s.users, user.primary_group, user)
    IN  [self |-> [s EXCEPT !.users = r.map], ret |-> r.old]

add_user(s, user) ==
    LET r == HashMapInsert(s.users, user.uid, user)
    IN  [self |-> [s EXCEPT !.users = r.map], ret |-> r.old]

\* add_group dropping the value HashMap::insert returns.
add_group_drop_old(s, group) ==
    [self |-> [s EXCEPT !.groups = HashMapInsert(s.groups, group.gid, group).map],
     ret |-> None]

add_group(s, group) ==
    LET r == HashMapInsert(s.groups, group.gid, group)
    IN  [self |-> [s EXCEPT !.groups = r.map], ret |-> r.old]

-----------------------------------------------------------------------------
(* impl Users for MockUsers *)

\* HashMap::remove(&k): the map after the call and the value removed.
HashMapRemove(m, k) ==
    [map |-> [x \in (DOMAIN m) \ {k} |-> m[x]], old |-> HashMapGet(m, k)]

\* get_user_by_uid taking the entry out of the table.
get_user_by_uid_remove(s, id) ==
    [self |-> [s EXCEPT !.users = HashMapRemove(s.users, id).map],
     ret |-> HashMapGet(s.users, id)]

get_user_by_uid(s, id) == [self |-> s, ret |-> HashMapGet(s.users, id)]

\* get_user_by_name returning the first value visited, whatever its name.
get_user_by_name_first(s, username, order) ==
    [self |-> s, ret |-> IF order = << >> THEN None ELSE Some(s.users[order[1]])]

get_user_by_name(s, username, order) ==
    [self |-> s, ret |-> FindByName(s.users, order, username)]

\* get_group_by_gid taking the entry out of the table.
get_group_by_gid_remove(s, id) ==
    [self |-> [s EXCEPT !.groups = HashMapRemove(s.groups, id).map],
     ret |-> HashMapGet(s.groups, id)]

get_group_by_gid(s, id) == [self |-> s, ret |-> HashMapGet(s.groups, id)]

get_group_by_name(s, group_name, order) ==
    [self |-> s, ret |-> FindByName(s.groups, order, group_name)]

get_current_uid(s) == [self |-> s, ret |-> s.uid]

\* get_current_username reading the groups table.
get_current_username_groups(s) ==
    [self |-> s, ret |-> MapName(HashMapGet(s.groups, s.uid))]

get_current_username(s) == [self |-> s, ret |-> MapName(HashMapGet(s.users, s.uid))]

get_current_gid(s) == [self |-> s, ret |-> s.uid]

\* get_current_groupname going through the current user's primary group.
get_current_groupname_primary(s) ==
    [self |-> s,
     ret |-> IF s.uid \in DOMAIN s.users
             THEN MapName(HashMapGet(s.groups, s.users[s.uid].primary_group))
             ELSE None]

get_current_groupname(s) == [self |-> s, ret |-> MapName(HashMapGet(s.groups, s.uid))]

get_effective_uid(s) == [self |-> s, ret |-> s.uid]

get_effective_username(s) == [self |-> s, ret |-> MapName(HashMapGet(s.users, s.uid))]

get_effective_gid(s) == [self |-> s, ret |-> s.uid]

\* get_effective_groupname reading the users table.
get_effective_groupname_users(s) ==
    [self |-> s, ret |-> MapName(HashMapGet(s.users, s.uid))]

get_effective_groupname(s) == [self |-> s, ret |-> MapName(HashMapGet(s.groups, s.uid))]

-----------------------------------------------------------------------------
(* The state machine *)

Init ==
    \E c \in Ids :
        /\ current_uid = c
        /\ users = with_current_uid(c).users
        /\ groups = with_current_uid(c).groups
        /\ uid = with_current_uid(c).uid
        /\ added_users = << >>
        /\ added_groups = << >>
        /\ call = [op |-> "with_current_uid", arg |-> c]
        /\ ret = None

\* A call of method `op` with argument `arg` whose outcome is `out`.
Called(op, arg, out) ==
    /\ users' = out.self.users
    /\ groups' = out.self.groups
    /\ uid' = out.self.uid
    /\ call' = [op |-> op, arg |-> arg]
    /\ ret' = out.ret
    /\ UNCHANGED current_uid

Query(op, arg, out) ==
    /\ Called(op, arg, out)
    /\ UNCHANGED <<added_users, added_groups>>

AddUser ==
    /\ Len(added_users) + Len(added_groups) < MaxAdds
    /\ \E user \in User :
        /\ Called("add_user", user, add_user(self, user))
        /\ added_users' = Append(added_users, user)
        /\ UNCHANGED added_groups

AddGroup ==
    /\ Len(added_users) + Len(added_groups) < MaxAdds
    /\ \E group \in Group :
        /\ Called("add_group", group, add_group(self, group))
        /\ added_groups' = Append(added_groups, group)
        /\ UNCHANGED added_users

GetUserByUid ==
    \E id \in Ids : Query("get_user_by_uid", id, get_user_by_uid(self, id))

GetUserByName ==
    \E username \in Names : \E order \in IterOrders(DOMAIN users) :
        Query("get_user_by_name", username, get_user_by_name(self, username, order))

GetGroupByGid ==
    \E id \in Ids : Query("get_group_by_gid", id, get_group_by_gid(self, id))

GetGroupByName ==
    \E group_name \in Names : \E order \in IterOrders(DOMAIN groups) :
        Query("get_group_by_name", group_name, get_group_by_name(self, group_name, order))

GetCurrentUid == Query("get_current_uid", None, get_current_uid(self))

GetCurrentUsername == Query("get_current_username", None, get_current_username(self))

GetCurrentGid == Query("get_current_gid", None, get_current_gid(self))

GetCurrentGroupname == Query("get_current_groupname", None, get_current_groupname(self))

GetEffectiveUid == Query("get_effective_uid", None, get_effective_uid(self))

GetEffectiveUsername == Query("get_effective_username", None, get_effective_username(self))

GetEffectiveGid == Query("get_effective_gid", None, get_effective_gid(self))

GetEffectiveGroupname == Query("get_effective_groupname", None, get_effective_groupname(self))

Next ==
    \/ AddUser
    \/ AddGroup
    \/ GetUserByUid
    \/ GetUserByName
    \/ GetGroupByGid
    \/ GetGroupByName
    \/ GetCurrentUid
    \/ GetCurrentUsername
    \/ GetCurrentGid
    \/ GetCurrentGroupname
    \/ GetEffectiveUid
    \/ GetEffectiveUsername
    \/ GetEffectiveGid
    \/ GetEffectiveGroupname

Spec == Init /\ [][Next]_vars

-----------------------------------------------------------------------------
(* What the history of add calls says the tables should hold *)

UsersWithId(log, id) == {i \in DOMAIN log : log[i].uid = id}

GroupsWithId(log, id) == {i \in DOMAIN log : log[i].gid = id}

\* The entry of `log` at the greatest index of I, if any.
Latest(log, I) ==
    IF I = {} THEN None ELSE Some(log[CHOOSE i \in I : \A j \in I : j <= i])

LastAddedUser(log, id) == Latest(log, UsersWithId(log, id))

LastAddedGroup(log, id) == Latest(log, GroupsWithId(log, id))

\* The log before its last call.
Earlier(log) == SubSeq(log, 1, Len(log) - 1)

\* The added users no later add_user with the same uid has replaced.
LiveUsers(log) ==
    {log[i] : i \in {k \in DOMAIN log : \A j \in DOMAIN log : log[j].uid = log[k].uid => j <= k}}

QueryOps ==
    {"get_user_by_uid", "get_user_by_name", "get_group_by_gid", "get_group_by_name",
     "get_current_uid", "get_current_username", "get_current_gid",
     "get_current_groupname", "get_effective_uid", "get_effective_username",
     "get_effective_gid", "get_effective_groupname"}

-----------------------------------------------------------------------------
(* Claims *)

\* C1: last write wins on id lookup. When get_user_by_uid(id) is called and
\* some add_user with that uid has been made, it returns the most recently
\* added user with that uid, equal in every field; get_group_by_gid likewise.
C1_LastWriteWins ==
    /\ (call.op = "get_user_by_uid" /\ UsersWithId(added_users, call.arg) # {})
          => ret = LastAddedUser(added_users, call.arg)
    /\ (call.op = "get_group_by_gid" /\ GroupsWithId(added_groups, call.arg) # {})
          => ret = LastAddedGroup(added_groups, call.arg)

\* A lookup by uid after two different users were added under that uid
\* returned the second.
C1_Witness ==
    /\ call.op = "get_user_by_uid"
    /\ \E i, j \in UsersWithId(added_users, call.arg) :
          /\ i < j
          /\ added_users[i] # added_users[j]
          /\ ret = Some(added_users[j])

\* C2: add_user (add_group) returns None when no earlier add used the new
\* entry's id and otherwise the entry most recently added under that id before
\* this call; after the call the table holds the new entry under that id.
C2_AddReturnsPrevious ==
    /\ call.op = "add_user" =>
          /\ ret = LastAddedUser(Earlier(added_users), call.arg.uid)
          /\ get_user_by_uid(self, call.arg.uid).ret = Some(call.arg)
    /\ call.op = "add_group" =>
          /\ ret = LastAddedGroup(Earlier(added_groups), call.arg.gid)
          /\ get_group_by_gid(self, call.arg.gid).ret = Some(call.arg)

\* A second add_group under the same gid returned the first group and left
\* the second in the table.
C2_Witness ==
    /\ call.op = "add_group"
    /\ Len(added_groups) >= 2
    /\ added_groups[1].gid = call.arg.gid
    /\ added_groups[1] # call.arg
    /\ ret = Some(added_groups[1])
    /\ groups[call.arg.gid] = call.arg

\* C3 as stated: get_user_by_name(name) returns None if no added user has
\* that name and a user with that name otherwise, replaced entries included.
C3_Original ==
    call.op = "get_user_by_name" =>
        IF \A i \in DOMAIN added_users : added_users[i].name # call.arg
        THEN ret = None
        ELSE ret # None /\ ret[1].name = call.arg

\* C3 amended: get_user_by_name(name) returns None if no user that was added
\* and not since replaced by an add_user with the same uid has that name, and
\* otherwise returns one of those users whose name is name.
C3_LookupByNameLive ==
    call.op = "get_user_by_name" =>
        IF \A u \in LiveUsers(added_users) : u.name # call.arg
        THEN ret = None
        ELSE ret # None /\ ret[1].name = call.arg /\ ret[1] \in LiveUsers(added_users)

\* A lookup by name, after an add_user replaced an earlier entry, found a user.
C3_Witness ==
    /\ call.op = "get_user_by_name"
    /\ \E i, j \in DOMAIN added_users :
          i < j /\ added_users[i].uid = added_users[j].uid
    /\ ret # None
    /\ ret[1].name = call.arg

\* C4: get_current_uid returns the integer passed to with_current_uid, in
\* every reachable state and at every call.
C4_CurrentUidFixed ==
    /\ get_current_uid(self).ret = current_uid
    /\ call.op = "get_current_uid" => ret = current_uid

\* get_current_uid was called after a user with another uid and a group were
\* added.
C4_Witness ==
    /\ call.op = "get_current_uid"
    /\ ret = current_uid
    /\ \E i \in DOMAIN added_users : added_users[i].uid # current_uid
    /\ added_groups # << >>

\* C5: get_current_username returns None while no user with the constructor's
\* uid has been added, and afterwards the name of the user most recently added
\* under that uid.
C5_CurrentUsername ==
    call.op = "get_current_username" =>
        IF UsersWithId(added_users, current_uid) = {}
        THEN ret = None
        ELSE ret = Some(LastAddedUser(added_users, current_uid)[1].name)

\* get_current_username was called after the current user's entry was
\* replaced by one with another name, and returned the newer name.
C5_Witness ==
    /\ call.op = "get_current_username"
    /\ \E i, j \in UsersWithId(added_users, current_uid) :
          /\ i < j
          /\ added_users[i].name # added_users[j].name
          /\ ret = Some(added_users[j].name)

\* C6: each get_effective_* has the same outcome as its get_current_*
\* counterpart in every reachable state, and every value a get_effective_*
\* (get_current_*) call returned is the one its counterpart returns.
C6_EffectiveEqualsCurrent ==
    /\ get_effective_uid(self) = get_current_uid(self)
    /\ get_effective_username(self) = get_current_username(self)
    /\ get_effective_gid(self) = get_current_gid(self)
    /\ get_effective_groupname(self) = get_current_groupname(self)
    /\ call.op = "get_effective_uid" => ret = get_current_uid(self).ret
    /\ call.op = "get_effective_username" => ret = get_current_username(self).ret
    /\ call.op = "get_effective_gid" => ret = get_current_gid(self).ret
    /\ call.op = "get_effective_groupname" => ret = get_current_groupname(self).ret
    /\ call.op = "get_current_uid" => ret = get_effective_uid(self).ret
    /\ call.op = "get_current_username" => ret = get_effective_username(self).ret
    /\ call.op = "get_current_gid" => ret = get_effective_gid(self).ret
    /\ call.op = "get_current_groupname" => ret = get_effective_groupname(self).ret

\* get_effective_groupname returned a group's name while a user with another
\* name is stored under the current uid.
C6_Witness ==
    /\ call.op = "get_effective_groupname"
    /\ ret # None
    /\ uid \in DOMAIN users
    /\ ret # Some(users[uid].name)

\* C7: get_current_gid equals get_current_uid, and get_current_groupname
\* returns the name of the group most recently added under the current uid,
\* or None if no group was added under it, whatever any user's primary_group.
C7_CurrentIdentityIsGid ==
    /\ get_current_gid(self).ret = get_current_uid(self).ret
    /\ call.op = "get_current_gid" => ret = get_current_uid(self).ret
    /\ call.op = "get_current_groupname" =>
          IF GroupsWithId(added_groups, current_uid) = {}
          THEN ret = None
          ELSE ret = Some(LastAddedGroup(added_groups, current_uid)[1].name)

\* get_current_groupname returned None although the current user's primary
\* group is in the group table.
C7_Witness ==
    /\ call.op = "get_current_groupname"
    /\ ret = None
    /\ uid \in DOMAIN users
    /\ users[uid].primary_group \in DOMAIN groups

\* C8: a lookup by id returns None exactly when no add with that id has been
\* made since construction, and an id whose lookup returns an entry keeps
\* returning one after every step.
C8_NeverRemoved ==
    /\ [](/\ call.op = "get_user_by_uid" =>
                (ret = None <=> UsersWithId(added_users, call.arg) = {})
          /\ call.op = "get_group_by_gid" =>
                (ret = None <=> GroupsWithId(added_groups, call.arg) = {}))
    /\ [][\A id \in Ids :
            /\ get_user_by_uid(self, id).ret # None
                  => get_user_by_uid(self', id).ret # None
            /\ get_group_by_gid(self, id).ret # None
                  => get_group_by_gid(self', id).ret # None]_vars

\* A lookup by uid found the first user added after a user with another uid
\* and a group were added.
C8_Witness ==
    /\ call.op = "get_user_by_uid"
    /\ Len(added_users) >= 2
    /\ added_users[1].uid = call.arg
    /\ added_users[2].uid # call.arg
    /\ ret = Some(added_users[1])

\* C9: a step of any lookup or current/effective query leaves users, groups
\* and uid unchanged; a step of add_user changes at most the users entry under
\* the added user's uid; a step of add_group at most the groups entry under
\* the added group's gid.
C9_Frame ==
    [][/\ call'.op \in QueryOps => self' = self
       /\ call'.op = "add_user" =>
             /\ groups' = groups
             /\ uid' = uid
             /\ \A k \in (DOMAIN users \cup DOMAIN users') \ {call'.arg.uid} :
                   k \in DOMAIN users /\ k \in DOMAIN users' /\ users'[k] = users[k]
       /\ call'.op = "add_group" =>
             /\ users' = users
             /\ uid' = uid
             /\ \A k \in (DOMAIN groups \cup DOMAIN groups') \ {call'.arg.gid} :
                   k \in DOMAIN groups /\ k \in DOMAIN groups' /\ groups'[k] = groups[k]
      ]_vars

\* A group was looked up by gid and found after a user and a group were added.
C9_Witness ==
    /\ call.op = "get_group_by_gid"
    /\ ret # None
    /\ users # HashMapNew
    /\ groups # HashMapNew

\* C10: every users entry is stored under its own uid and every groups entry
\* under its own gid; an entry a lookup by id returns has that id, and an
\* entry a lookup by name returns is what the lookup by its own id returns.
C10_KeyConsistency ==
    /\ \A k \in DOMAIN users : users[k].uid = k
    /\ \A k \in DOMAIN groups : groups[k].gid = k
    /\ (call.op = "get_user_by_uid" /\ ret # None) => ret[1].uid = call.arg
    /\ (call.op = "get_group_by_gid" /\ ret # None) => ret[1].gid = call.arg
    /\ (call.op = "get_user_by_name" /\ ret # None)
          => get_user_by_uid(self, ret[1].uid).ret = ret
    /\ (call.op = "get_group_by_name" /\ ret # None)
          => get_group_by_gid(self, ret[1].gid).ret = ret

\* A lookup by name found a user while two users are stored.
C10_Witness ==
    /\ call.op = "get_user_by_name"
    /\ ret # None
    /\ Cardinality(DOMAIN users) = 2

=============================================================================
